---- MODULE Spec2Model ----
(***************************************************************************)
(* wordle-stats-bot: the reconciliation and persistence engine             *)
(* (utils/parsing.py save_results_to_db over the tables of database.py),   *)
(* the historical backfill scanner (scan_historical_messages,              *)
(* scan_channel) and the roster resolution of parse_wordle_message.        *)
(*                                                                         *)
(* Time is counted in days.  The wordle_play table is a bag of rows: two   *)
(* rows that differ only in the autoincrement id are two copies of one     *)
(* element.  guild_user_stats is a set of (guild_id, discord_user_id)      *)
(* pairs, its primary key.                                                 *)
(*                                                                         *)
(* database.py declares no column discord_user_name_at_time on WordlePlay, *)
(* while parsing.py filters on it (line 122) and passes it to the          *)
(* constructor (line 177).  The column is modelled as the data model of    *)
(* spec.md section 3 describes it (display-name-at-time of a PlayRecord).  *)
(***************************************************************************)
EXTENDS Integers, Sequences, FiniteSets, Bags, TLC

VARIABLES
    users,      \* table guild_user_stats
    plays,      \* table wordle_play
    now,        \* datetime.utcnow(), in days
    faults,     \* persistence failures (connection loss) injected so far
    calls,      \* save_results_to_db calls begun so far
    sess,       \* per caller: the save_results_to_db call it is in
    roster,     \* the guild's members, as the cache and the API answer
    content,    \* the message text handed to parse_wordle_message
    parsed,     \* what parse_wordle_message gave for it
    scan,       \* scan_historical_messages: where it is and its locals
    live,       \* on_message: where the handler is and how it ended
    ready       \* on_ready: _historical_scan_done and the handlers running

vars == <<users, plays, now, faults, calls, sess, roster, content, parsed, scan,
          live, ready>>
parseVars == <<roster, content, parsed>>
saveVars == <<users, plays, now, faults, calls, sess>>

-----------------------------------------------------------------------------
(* Values *)

None == -1
NoName == "None"

MaxGuilds == 2
MaxUsers == 2
MaxResults == 2
MaxCalls == 2
MaxFaults == 1
MaxTicks == 1
Day0 == 8
WindowDays == 7

Guilds == 1..MaxGuilds
Users == 1..MaxUsers
Names == {"ann", "bob"}
RosterNames == {"ann"}
Dates == {Day0 - WindowDays, Day0}
GuessValues == {3}
Workers == {"live", "scan"}

\* A Discord snowflake is unique over all guilds and grows with time.
MessageId(g, d) == d * (MaxGuilds + 1) + g

\* WordleResult, as parse_wordle_message builds it: a mention carries the
\* mentioned id and the roster's display name (None when the member is gone),
\* a failed ping carries only the name.
WordleResult ==
    { [user_id |-> u, username_at_time |-> n, guesses |-> q, is_crown |-> FALSE] :
        u \in Users, n \in RosterNames, q \in GuessValues }
    \cup
    { [user_id |-> None, username_at_time |-> n, guesses |-> q, is_crown |-> FALSE] :
        n \in Names, q \in GuessValues }

\* The announcements there are: one a day and guild.
Announcements == Guilds \X Dates

\* Python truth value of an int | None.
AlwaysTruthy(x) == TRUE
Truthy(x) == x # None /\ x # 0

-----------------------------------------------------------------------------
(* database.py *)

WordlePlay(g, u, m, name, q, d) ==
    [guild_id |-> g, discord_user_id |-> u, stats_discord_message_id |-> m,
     discord_user_name_at_time |-> name, guesses |-> q, played_at |-> d]

discord_user_name_at_time(p) == p.discord_user_name_at_time

Rows(pl) == BagToSet(pl)

SameKey(p, g, u, m) ==
    /\ p.guild_id = g
    /\ p.discord_user_id = u
    /\ p.stats_discord_message_id = m

\* UniqueConstraint _user_message_uc
NoUniqueConstraint(pl, row) == FALSE
UniqueViolation(pl, row) ==
    \E p \in Rows(pl) :
        SameKey(p, row.guild_id, row.discord_user_id, row.stats_discord_message_id)

\* ForeignKeyConstraint to guild_user_stats
ForeignKeyViolation(us, row) == <<row.guild_id, row.discord_user_id>> \notin us

\* nullable=False on discord_user_id (both tables)
NotNullViolation(u) == u = None

\* primary key of guild_user_stats
PrimaryKeyViolation(us, g, u) == <<g, u>> \in us

\* What the flush of one pending WordlePlay raises: "none" when it is stored.
FlushPlayError(us, pl, row) ==
    IF NotNullViolation(row.discord_user_id) THEN "notnull"
    ELSE IF ForeignKeyViolation(us, row) THEN "fk"
    ELSE IF UniqueViolation(pl, row) THEN "unique"
    ELSE "none"

FlushUserError(us, g, u) ==
    IF NotNullViolation(u) THEN "notnull"
    ELSE IF PrimaryKeyViolation(us, g, u) THEN "pk"
    ELSE "none"

-----------------------------------------------------------------------------
(* save_results_to_db *)

InWindowExclusive(d, t) == t - WindowDays < d /\ d < t + WindowDays
InWindow(d, t) == t - WindowDays <= d /\ d <= t + WindowDays

\* The rows the fallback query (lines 118-129) can return.
MatchingPlays(pl, g, name, t) ==
    { p \in Rows(pl) :
        /\ p.guild_id = g
        /\ discord_user_name_at_time(p) = name
        /\ InWindow(p.played_at, t)
        /\ p.discord_user_id # None }

NeedsSearch(r) == ~Truthy(r.user_id) /\ r.username_at_time # NoName

ExistingUser(us, g, u) == <<g, u>> \in us

\* db.add(new_user) with its commit (lines 154-159)
WithoutUser(us, g, u) == us
WithUser(us, g, u) == us \cup {<<g, u>>}

ExistingPlay(pl, g, u, m) == \E p \in Rows(pl) : SameKey(p, g, u, m)

\* Lines 172-181: the table after the play of a result is dealt with; a play
\* that exists is left as it is.
Overwritten(pl, row, existing_play) ==
    SetToBag({ p \in Rows(pl) :
                 ~SameKey(p, row.guild_id, row.discord_user_id,
                          row.stats_discord_message_id) })
    (+) SetToBag({row})
WithPlay(pl, row, existing_play) ==
    IF existing_play THEN pl ELSE pl (+) SetToBag({row})

\* The value the call hands back and the count it prints (line 184).
ReturnsLength(rs) == Len(rs)
ReturnValue(rs) == None
SavedCount(rs) == Len(rs)

Idle ==
    [phase |-> "idle", guild_id |-> 0, message_id |-> 0, message_date |-> 0,
     results |-> <<>>, todo |-> <<>>, user_id |-> None, existing_play |-> FALSE,
     madeUser |-> FALSE, madePlay |-> FALSE, error |-> "none",
     ret |-> None, logged |-> None,
     given |-> FALSE, replay |-> FALSE, base |-> <<>>]

Returning(s) == s.phase \in {"done", "raised"}

\* A finished call returns to its caller before anything else runs.
NoReturn == \A w \in Workers : ~Returning(sess[w])

\* The result the for loop of line 105 is at.
Current(s) == s.results[Len(s.results)]

AtResult(s, r) ==
    [s EXCEPT !.phase = "resolve", !.results = Append(s.results, r),
              !.user_id = None, !.existing_play = FALSE,
              !.madeUser = FALSE, !.madePlay = FALSE]

\* Line 184, and the end of the function.
Finish(s) ==
    [s EXCEPT !.phase = "done",
              !.logged = SavedCount(s.results),
              !.ret = ReturnValue(s.results)]

\* The for loop of line 105 moving past the current result.  The list of a
\* first call is an input revealed one result at a time: it ends here or
\* goes on with any result.  A call on a list that is known walks it.
Advance(s) ==
    IF s.given
    THEN IF s.todo = <<>> THEN {Finish(s)}
         ELSE {AtResult([s EXCEPT !.todo = Tail(s.todo)], Head(s.todo))}
    ELSE {Finish(s)} \cup
         (IF Len(s.results) < MaxResults
          THEN {AtResult(s, r) : r \in WordleResult} ELSE {})

\* except: db.rollback(); raise  (lines 186-189)
Raise(s, e) == [s EXCEPT !.phase = "raised", !.error = e]

Start(g, d, r) ==
    AtResult([Idle EXCEPT !.guild_id = g, !.message_id = MessageId(g, d),
                          !.message_date = d], r)

\* The call on a list that is known.
StartGiven(g, m, d, rs) ==
    AtResult([Idle EXCEPT !.guild_id = g, !.message_id = m, !.message_date = d,
                          !.todo = Tail(rs), !.given = TRUE], Head(rs))

save_begin(w) ==
    /\ NoReturn
    /\ sess[w].phase = "idle"
    /\ calls < MaxCalls
    /\ calls' = calls + 1
    /\ \E a \in Announcements, r \in WordleResult :
          /\ a[2] <= now
          /\ sess' = [sess EXCEPT ![w] = Start(a[1], a[2], r)]
    /\ UNCHANGED <<users, plays, now, faults, parseVars, scan, live, ready>>

\* The same announcement handed to save_results_to_db once more.
save_again(w) ==
    LET s == sess[w] IN
    /\ s.phase = "done"
    /\ ~s.replay
    /\ \A v \in Workers \ {w} : sess[v].phase = "idle"
    /\ sess' = [sess EXCEPT ![w] =
                  [StartGiven(s.guild_id, s.message_id, s.message_date, s.results)
                   EXCEPT !.replay = TRUE, !.base = <<users, plays>>]]
    /\ UNCHANGED <<users, plays, now, faults, calls, parseVars, scan, live, ready>>

\* The caller takes the outcome (cogs/wordle_cog.py 46-51, parsing.py 277-287).
save_return(w) ==
    /\ Returning(sess[w])
    /\ sess' = [sess EXCEPT ![w] = Idle]
    /\ UNCHANGED <<users, plays, now, faults, calls, parseVars, scan, live, ready>>

\* Lines 106-153: the fallback search, the test of user_id and the query for
\* the user record.
save_resolve(w) ==
    LET s == sess[w]
        r == Current(s)
        found == MatchingPlays(plays, s.guild_id, r.username_at_time, now)
        go(u) == IF Truthy(u)
                 THEN {[s EXCEPT !.user_id = u,
                                 !.phase = IF ExistingUser(users, s.guild_id, u)
                                           THEN "play" ELSE "adduser"]}
                 ELSE Advance([s EXCEPT !.user_id = u])
    IN /\ NoReturn
       /\ s.phase = "resolve"
       /\ IF NeedsSearch(r) /\ found # {}
          THEN \E p \in found : \E t \in go(p.discord_user_id) :
                   sess' = [sess EXCEPT ![w] = t]
          ELSE \E t \in go(r.user_id) : sess' = [sess EXCEPT ![w] = t]
       /\ UNCHANGED <<users, plays, now, faults, calls, parseVars, scan, live, ready>>

\* Lines 154-159: db.add(new_user); db.commit()
save_adduser(w) ==
    LET s == sess[w]
        e == FlushUserError(users, s.guild_id, s.user_id)
    IN /\ NoReturn
       /\ s.phase = "adduser"
       /\ \/ /\ e = "none"
             /\ users' = WithUser(users, s.guild_id, s.user_id)
             /\ sess' = [sess EXCEPT ![w].phase = "play", ![w].madeUser = TRUE]
             /\ UNCHANGED faults
          \/ /\ e # "none"
             /\ sess' = [sess EXCEPT ![w] = Raise(s, e)]
             /\ UNCHANGED <<users, faults>>
          \/ /\ faults < MaxFaults
             /\ faults' = faults + 1
             /\ sess' = [sess EXCEPT ![w] = Raise(s, "fault")]
             /\ UNCHANGED users
       /\ UNCHANGED <<plays, now, calls, parseVars, scan, live, ready>>

\* Lines 162-170: the query for the play.
save_play(w) ==
    LET s == sess[w] IN
    /\ NoReturn
    /\ s.phase = "play"
    /\ sess' = [sess EXCEPT ![w].phase = "addplay",
                            ![w].existing_play =
                                ExistingPlay(plays, s.guild_id, s.user_id, s.message_id)]
    /\ UNCHANGED <<users, plays, now, faults, calls, parseVars, scan, live, ready>>

\* Lines 172-183: db.add(new_play) when there is none; db.commit()
save_addplay(w) ==
    LET s == sess[w]
        r == Current(s)
        row == WordlePlay(s.guild_id, s.user_id, s.message_id,
                          r.username_at_time, r.guesses, s.message_date)
        e == IF s.existing_play THEN "none" ELSE FlushPlayError(users, plays, row)
    IN /\ NoReturn
       /\ s.phase = "addplay"
       /\ \/ /\ e = "none"
             /\ plays' = WithPlay(plays, row, s.existing_play)
             /\ \E t \in Advance([s EXCEPT !.madePlay = ~s.existing_play]) :
                   sess' = [sess EXCEPT ![w] = t]
             /\ UNCHANGED faults
          \/ /\ e # "none"
             /\ sess' = [sess EXCEPT ![w] = Raise(s, e)]
             /\ UNCHANGED <<plays, faults>>
          \/ /\ faults < MaxFaults
             /\ faults' = faults + 1
             /\ sess' = [sess EXCEPT ![w] = Raise(s, "fault")]
             /\ UNCHANGED plays
       /\ UNCHANGED <<users, now, calls, parseVars, scan, live, ready>>

Tick ==
    /\ NoReturn
    /\ now < Day0 + MaxTicks
    /\ now' = now + 1
    /\ UNCHANGED <<users, plays, faults, calls, sess, parseVars, scan, live, ready>>

-----------------------------------------------------------------------------
(* parse_wordle_message *)

MaxLines == 2
MaxTokens == 2

\* What guild.get_member and guild.fetch_member answer for a user id: in the
\* cache, only at the API, discord.NotFound, or another HTTP error.
Status == {"cached", "remote", "gone", "error"}

\* Members as discord.py presents them.
Member(u) ==
    IF u = 1 THEN [nick |-> "ann", global_name |-> "a1", name |-> "u1"]
    ELSE [nick |-> NoName, global_name |-> NoName, name |-> "ann"]

\* user.nick or user.global_name or user.name (line 63)
DisplayName(m) ==
    IF m.nick # NoName THEN m.nick
    ELSE IF m.global_name # NoName THEN m.global_name
    ELSE m.name

\* The text after the score: <@id> tokens and @name tokens.
Tokens ==
    { [kind |-> "mention", id |-> u, name |-> NoName] : u \in Users }
    \cup { [kind |-> "name", id |-> None, name |-> n] : n \in Names }

TokenSeqs == UNION { [1..k -> Tokens] : k \in 0..MaxTokens }

\* The part of a line before "/6:": a digit, X, or nothing of that shape.
Scores == {"3", "7", "X", "none"}

Lines == [score : Scores, crown : BOOLEAN, tokens : TokenSeqs]

\* The lead-in: "on a N day streak", "on an N day streak", a fragment of
\* it, or none.
LeadIns == {"a", "an", "partial", "none"}
Streaks == {5}

Contents ==
    [leadin : LeadIns, streak : Streaks,
     lines : UNION { [1..k -> Lines] : k \in 0..MaxLines }]

\* Line 32: the pattern spells "on a (\d+) day streak".
LeadInMatches(c) == c.leadin = "a"

\* Line 46: (\d|X)/6:\s*(.+)
ScoreMatches(l) == l.score # "none" /\ l.tokens # <<>>

\* Line 49
Guesses(score) ==
    IF score = "X" THEN None
    ELSE IF score = "3" THEN 3
    ELSE IF score = "7" THEN 7
    ELSE 0

\* Lines 54-65: the member, by cache and then API, and its name.
UserName(ro, u) ==
    IF ro[u] \in {"cached", "remote"} THEN DisplayName(Member(u)) ELSE NoName

\* Lines 67-74
NameOnlyResult(ro, u, l) ==
    [user_id |-> IF ro[u] = "gone" THEN None ELSE u,
     username_at_time |-> DisplayName(Member(u)),
     guesses |-> Guesses(l.score), is_crown |-> l.crown]
MentionResult(ro, u, l) ==
    [user_id |-> u, username_at_time |-> UserName(ro, u),
     guesses |-> Guesses(l.score), is_crown |-> l.crown]

\* Lines 82-89
FailPingResult(n, l) ==
    [user_id |-> None, username_at_time |-> n,
     guesses |-> Guesses(l.score), is_crown |-> l.crown]

IsMention(t) == t.kind = "mention"
IsName(t) == t.kind = "name"

\* Lines 47-89: the results of one line, mentions first.
MentionsOnly(ro, l) ==
    IF ~ScoreMatches(l) THEN <<>>
    ELSE LET ms == SelectSeq(l.tokens, IsMention)
         IN [i \in 1..Len(ms) |-> MentionResult(ro, ms[i].id, l)]
LineResults(ro, l) ==
    IF ~ScoreMatches(l) THEN <<>>
    ELSE LET ms == SelectSeq(l.tokens, IsMention)
             ns == SelectSeq(l.tokens, IsName)
         IN [i \in 1..Len(ms) |-> MentionResult(ro, ms[i].id, l)]
            \o [i \in 1..Len(ns) |-> FailPingResult(ns[i].name, l)]

RECURSIVE AllResults(_, _)
AllResults(ro, ls) ==
    IF ls = <<>> THEN <<>>
    ELSE LineResults(ro, Head(ls)) \o AllResults(ro, Tail(ls))

\* fetch_member raising anything but discord.NotFound (lines 56-60).
FetchRaises(ro, c) ==
    \E i \in 1..Len(c.lines) :
        /\ ScoreMatches(c.lines[i])
        /\ \E k \in 1..Len(c.lines[i].tokens) :
              /\ IsMention(c.lines[i].tokens[k])
              /\ ro[c.lines[i].tokens[k].id] = "error"

ParseWithoutEmptyCheck(ro, c) ==
    IF ~LeadInMatches(c)
    THEN [kind |-> "none", streak_days |-> 0, results |-> <<>>]
    ELSE IF FetchRaises(ro, c)
    THEN [kind |-> "raised", streak_days |-> 0, results |-> <<>>]
    ELSE [kind |-> "parsed", streak_days |-> c.streak,
          results |-> AllResults(ro, c.lines)]
parse_wordle_message(ro, c) ==
    IF ~LeadInMatches(c)
    THEN [kind |-> "none", streak_days |-> 0, results |-> <<>>]
    ELSE IF FetchRaises(ro, c)
    THEN [kind |-> "raised", streak_days |-> 0, results |-> <<>>]
    ELSE IF AllResults(ro, c.lines) = <<>>
    THEN [kind |-> "none", streak_days |-> 0, results |-> <<>>]
    ELSE [kind |-> "parsed", streak_days |-> c.streak,
          results |-> AllResults(ro, c.lines)]

NoParse == [kind |-> "unset", streak_days |-> 0, results |-> <<>>]
NoContent == [leadin |-> "none", streak |-> 0, lines |-> <<>>]

\* A message text goes through parse_wordle_message.
parse_message ==
    /\ parsed = NoParse
    /\ parsed' = parse_wordle_message(roster, content)
    /\ UNCHANGED <<saveVars, roster, content, scan, live, ready>>

-----------------------------------------------------------------------------
(* scan_historical_messages, scan_channel *)

MaxHist == 2
MaxScans == 1
ProbeLimit == 500
ProbeDays == 7
BatchLimit == 200
max_gap_days == 30
scan_batch_days == 7

WORDLE_USER_ID == "1211781489931452447"
OtherAuthor == "someone"

\* bot.guilds and their text_channels, in the order of the loops (209-211).
ChannelList == <<[guild |-> 1, channel |-> 1], [guild |-> 2, channel |-> 1]>>

\* Message texts a channel may hold: what the announcer posts, with a
\* mention, with a failed ping and without a score line, and other chatter.
Score3(tok) == [score |-> "3", crown |-> FALSE, tokens |-> <<tok>>]
Chatter == [leadin |-> "none", streak |-> 5, lines |-> <<>>]
Announcer ==
    { [leadin |-> "a", streak |-> 5,
       lines |-> <<Score3([kind |-> "mention", id |-> 1, name |-> NoName])>>],
      [leadin |-> "a", streak |-> 5,
       lines |-> <<Score3([kind |-> "name", id |-> None, name |-> "ann"])>>],
      [leadin |-> "a", streak |-> 5, lines |-> <<>>] }

\* How old a message may be, in days before the scan.
Ages == {1, ProbeDays, 10, 45}

\* A stretch of a channel's history: n messages alike, posted on one day.
Entries ==
    { [author |-> WORDLE_USER_ID, content |-> c, at |-> Day0 - a, n |-> 1] :
        c \in Announcer, a \in Ages }
    \cup { [author |-> OtherAuthor, content |-> Chatter, at |-> Day0 - a, n |-> k] :
        a \in Ages, k \in {BatchLimit, ProbeLimit} }

\* Histories, oldest message first.
Histories ==
    { h \in UNION { [1..k -> Entries] : k \in 0..MaxHist } :
        \A i \in 1..Len(h) : \A j \in 1..Len(h) : i < j => h[i].at <= h[j].at }

ScanMessageId(ch, i) ==
    MessageId(MaxGuilds, Day0 + MaxTicks) + ch * (MaxHist + 1) + i

\* The positions in h, oldest first, of the messages dated in dates that a
\* read limited to limit messages yields, from position i on.
RECURSIVE Read(_, _, _, _)
Read(h, i, limit, dates) ==
    IF i > Len(h) \/ limit <= 0 THEN <<>>
    ELSE IF h[i].at \in dates
    THEN <<i>> \o Read(h, i + 1, limit - h[i].n, dates)
    ELSE Read(h, i + 1, limit, dates)

DatesOf(h) == { h[i].at : i \in 1..Len(h) }

\* channel.history(limit=, after=): after is excluded (line 236).
HistoryAfter(h, limit, after) ==
    Read(h, 1, limit, { d \in DatesOf(h) : after < d })

\* channel.history(limit=, before=, after=): both excluded (lines 264-266).
History(h, limit, after, before) ==
    Read(h, 1, limit, { d \in DatesOf(h) : after < d /\ d < before })

\* What parse_wordle_message can give for a text, over the roster's answers.
ParseOutcomes(c) == { parse_wordle_message(ro, c) : ro \in [Users -> Status] }

\* Lines 236-241: the probe over the messages read.
ProbeAlwaysHits(h, ix) == {"hit"}
RECURSIVE Probe(_, _)
Probe(h, ix) ==
    IF ix = <<>> THEN {"miss"}
    ELSE IF h[Head(ix)].author # WORDLE_USER_ID THEN Probe(h, Tail(ix))
    ELSE UNION { IF o.kind = "parsed" THEN {"hit"}
                 ELSE IF o.kind = "raised" THEN {"raised"}
                 ELSE Probe(h, Tail(ix)) : o \in ParseOutcomes(h[Head(ix)].content) }

\* Lines 264-271: batch_messages, or the exception of a parse.
RECURSIVE Batch(_, _, _)
Batch(h, ch, ix) ==
    IF ix = <<>> THEN {[raised |-> FALSE, msgs |-> <<>>]}
    ELSE IF h[Head(ix)].author # WORDLE_USER_ID THEN Batch(h, ch, Tail(ix))
    ELSE UNION {
           IF o.kind = "raised" THEN {[raised |-> TRUE, msgs |-> <<>>]}
           ELSE IF o.kind = "none" THEN Batch(h, ch, Tail(ix))
           ELSE { IF b.raised THEN b
                  ELSE [b EXCEPT !.msgs =
                          <<[id |-> ScanMessageId(ch, Head(ix)),
                             created_at |-> h[Head(ix)].at,
                             results |-> o.results]>> \o b.msgs] :
                  b \in Batch(h, ch, Tail(ix)) } :
           o \in ParseOutcomes(h[Head(ix)].content) }

\* A message the parser can recognise.
Recognised(c) == \E o \in ParseOutcomes(c) : o.kind = "parsed"

\* h holds, in the 7 days before t, a message of the announcer that the
\* parser can recognise.
Recent(h, t) ==
    \E i \in 1..Len(h) :
        /\ h[i].at > t - ProbeDays
        /\ h[i].author = WORDLE_USER_ID
        /\ Recognised(h[i].content)

NoScan ==
    [pc |-> "idle", force |-> FALSE, runs |-> 0, ch |-> 0, processed_count |-> 0,
     history |-> <<>>, days_without_wordle |-> 0, current_scan_date |-> 0,
     total_days_scanned |-> 0, batch_messages |-> <<>>,
     historical_scan_done |-> FALSE,
     probed |-> {}, no_recent |-> FALSE, exit |-> "none", failed |-> {},
     had_plays |-> FALSE, base |-> <<>>]

\* Lines 197-205: the guard.
SkipsWhatever(force, pl) == pl # EmptyBag
SkipsScan(force, pl) == ~force /\ pl # EmptyBag

\* The channel loop moving on, or the end of the scan (lines 209-221).
StaysOnChannel(sc) ==
    [sc EXCEPT !.history = <<>>, !.batch_messages = <<>>,
               !.days_without_wordle = 0, !.current_scan_date = 0,
               !.total_days_scanned = 0, !.pc = "channel",
               !.ch = IF sc.ch = 0 THEN 1 ELSE sc.ch]
Leave(sc) ==
    LET t == [sc EXCEPT !.history = <<>>, !.batch_messages = <<>>,
                        !.days_without_wordle = 0, !.current_scan_date = 0,
                        !.total_days_scanned = 0]
    IN IF sc.ch < Len(ChannelList)
       THEN [t EXCEPT !.pc = "channel", !.ch = sc.ch + 1]
       ELSE [t EXCEPT !.pc = "finished", !.ch = 0,
                      !.historical_scan_done = sc.historical_scan_done \/ ~sc.force]

\* scan_channel is left: by the return of line 245 ("miss"), by an exception
\* of the probe ("probe_error"), by the break of line 274 ("batch_error") or
\* by the loop test of line 256 ("gap").
Failures == {"probe_error", "batch_error"}
AbortBy(sc, why) ==
    [sc EXCEPT !.pc = "finished", !.exit = why,
               !.failed = IF why \in Failures THEN sc.failed \cup {sc.ch} ELSE sc.failed]
LeaveBy(sc, why) ==
    [Leave(sc) EXCEPT !.exit = why,
                      !.failed = IF why \in Failures
                                 THEN sc.failed \cup {sc.ch} ELSE sc.failed]

\* Lines 290-297: the gap counter after a batch.
GapAlwaysGrows(days, batch_found_wordle) == days + scan_batch_days
GapAfter(days, batch_found_wordle) ==
    IF batch_found_wordle THEN 0 ELSE days + scan_batch_days

\* Lines 290-300 and the test of line 256.
AfterBatch(sc, batch_found_wordle) ==
    LET d == GapAfter(sc.days_without_wordle, batch_found_wordle)
        t == [sc EXCEPT !.days_without_wordle = d,
                        !.total_days_scanned = sc.total_days_scanned + scan_batch_days,
                        !.current_scan_date = sc.current_scan_date - scan_batch_days,
                        !.batch_messages = <<>>]
    IN IF d < max_gap_days THEN [t EXCEPT !.pc = "batch"] ELSE LeaveBy(t, "gap")

Here == ChannelList[scan.ch]

\* scan_historical_messages up to the first channel (lines 194-213).
Begin(force) ==
    LET t == [NoScan EXCEPT !.force = force, !.runs = scan.runs + 1,
                            !.historical_scan_done = scan.historical_scan_done,
                            !.had_plays = plays # EmptyBag,
                            !.base = <<users, plays>>]
    IN /\ scan.runs < MaxScans
       /\ IF SkipsScan(force, plays)
          THEN scan' = [t EXCEPT !.pc = "finished",
                                 !.historical_scan_done =
                                     scan.historical_scan_done \/ ~force]
          ELSE scan' = Leave(t)
       /\ UNCHANGED <<saveVars, parseVars, live, ready>>

\* cogs/wordle_cog.py 26-30
on_ready ==
    /\ scan.pc \in {"idle", "finished"}
    /\ ~scan.historical_scan_done
    /\ Begin(FALSE)

\* cogs/wordle_cog.py 286-296
rescan_wordle ==
    /\ scan.pc \in {"idle", "finished"}
    /\ Begin(TRUE)

\* Line 213: scan_channel is called on the next channel, whose history is
\* whatever the channel holds.
scan_channel ==
    /\ scan.pc = "channel"
    /\ \E h \in Histories :
          scan' = [scan EXCEPT !.pc = "probe", !.history = h, !.no_recent = FALSE,
                               !.exit = "none"]
    /\ UNCHANGED <<saveVars, parseVars, live, ready>>

\* Lines 230-254: the probe of the last 7 days.
scan_probe ==
    LET h == scan.history
        sc == [scan EXCEPT !.probed = scan.probed \cup {scan.ch},
                           !.no_recent = ~Recent(h, now)]
        read == HistoryAfter(h, ProbeLimit, now - ProbeDays)
    IN /\ scan.pc = "probe"
       /\ \/ scan' = LeaveBy(sc, "probe_error")
          \/ \E o \in Probe(h, read) :
                IF o = "hit"
                THEN scan' = [sc EXCEPT !.pc = "batch",
                                        !.days_without_wordle = 0,
                                        !.current_scan_date = now,
                                        !.total_days_scanned = 0]
                ELSE scan' = LeaveBy(sc, IF o = "miss" THEN "miss" ELSE "probe_error")
       /\ UNCHANGED <<saveVars, parseVars, live, ready>>

\* Lines 256-274 and, for a batch without announcements, 290-300.
scan_batch ==
    LET h == scan.history
        sc == scan
        batch_start == scan.current_scan_date - scan_batch_days
        batch_end == scan.current_scan_date
        read == History(h, BatchLimit, batch_start, batch_end)
    IN /\ scan.pc = "batch"
       /\ \/ scan' = LeaveBy(sc, "batch_error")
          \/ \E b \in Batch(h, scan.ch, read) :
                IF b.raised
                THEN scan' = LeaveBy(sc, "batch_error")
                ELSE IF b.msgs = <<>>
                THEN scan' = AfterBatch(sc, FALSE)
                ELSE scan' = [sc EXCEPT !.pc = "save", !.batch_messages = b.msgs]
       /\ UNCHANGED <<saveVars, parseVars, live, ready>>

\* Lines 276-280: the next message of the batch goes to save_results_to_db.
scan_save ==
    LET m == Head(scan.batch_messages) IN
    /\ scan.pc = "save"
    /\ sess["scan"].phase = "idle"
    /\ sess' = [sess EXCEPT !["scan"] =
                  StartGiven(Here.guild, m.id, m.created_at, m.results)]
    /\ scan' = [scan EXCEPT !.pc = "saving"]
    /\ UNCHANGED <<users, plays, now, faults, calls, parseVars, live, ready>>

\* Lines 281-300: the message is counted unless the call raised (281, 285-287),
\* and the loop of line 276 goes to the next message of the batch.
StopsAtFailure(sc, phase) ==
    IF phase = "raised"
    THEN AfterBatch([sc EXCEPT !.batch_messages = <<>>], TRUE)
    ELSE LET t == [sc EXCEPT !.processed_count = sc.processed_count + 1,
                             !.batch_messages = Tail(sc.batch_messages)]
         IN IF t.batch_messages = <<>> THEN AfterBatch(t, TRUE)
            ELSE [t EXCEPT !.pc = "save"]
AfterMessage(sc, phase) ==
    LET t == [sc EXCEPT !.processed_count =
                  IF phase = "done"
                  THEN sc.processed_count + 1 ELSE sc.processed_count,
                        !.batch_messages = Tail(sc.batch_messages)]
    IN IF t.batch_messages = <<>> THEN AfterBatch(t, TRUE)
       ELSE [t EXCEPT !.pc = "save"]

\* Lines 281-300: the call is back, with or without an exception.
scan_saved ==
    /\ scan.pc = "saving"
    /\ Returning(sess["scan"])
    /\ sess' = [sess EXCEPT !["scan"] = Idle]
    /\ scan' = AfterMessage(scan, sess["scan"].phase)
    /\ UNCHANGED <<users, plays, now, faults, calls, parseVars, live, ready>>

-----------------------------------------------------------------------------
(* cogs/wordle_cog.py on_message *)

MaxMessages == 2

NoLive == [pc |-> "idle", guild_id |-> 0, message_id |-> 0, created_at |-> 0,
           outcome |-> "none", handled |-> 0]

\* Texts of the messages that arrive.
LiveContents == Announcer \cup {Chatter}

\* How a handler ends: by one of its returns ("ignored" at lines 34-38,
\* "unmatched" at 53, "saved" after 47-49, "dropped" at 50-51) or by an
\* exception that leaves it ("raised").
Ended(l, how) ==
    [l EXCEPT !.pc = "idle", !.outcome = how, !.handled = l.handled + 1]

\* Lines 33-39: a message arrives, from a guild or not, by the announcer or not.
on_message ==
    /\ live.pc = "idle"
    /\ live.handled < MaxMessages
    /\ \E has_guild \in BOOLEAN, author \in {WORDLE_USER_ID, OtherAuthor},
          a \in Announcements, c \in LiveContents :
          /\ a[2] <= now
          /\ IF ~has_guild \/ author # WORDLE_USER_ID
             THEN /\ live' = Ended(live, "ignored")
                  /\ UNCHANGED <<content, parsed>>
             ELSE /\ live' = [live EXCEPT !.pc = "parse", !.guild_id = a[1],
                                          !.message_id = MessageId(a[1], a[2]),
                                          !.created_at = a[2], !.outcome = "none"]
                  /\ content' = c
                  /\ parsed' = NoParse
    /\ UNCHANGED <<saveVars, roster, scan, ready>>

\* A member leaves the guild between two messages.
member_leaves ==
    /\ live.pc = "idle"
    /\ \E u \in Users :
          /\ roster[u] \in {"cached", "remote"}
          /\ roster' = [roster EXCEPT ![u] = "gone"]
    /\ UNCHANGED <<saveVars, content, parsed, scan, live, ready>>

\* Lines 42-49 and 52-53: the parse, outside of any try, and the call of
\* save_results_to_db when there are results.
on_message_parse ==
    LET o == parse_wordle_message(roster, content) IN
    /\ live.pc = "parse"
    /\ parsed' = o
    /\ IF o.kind = "raised"
       THEN live' = Ended(live, "raised") /\ UNCHANGED sess
       ELSE IF o.kind = "none"
       THEN live' = Ended(live, "unmatched") /\ UNCHANGED sess
       ELSE /\ live' = [live EXCEPT !.pc = "save"]
            /\ sess' = [sess EXCEPT !["live"] =
                          StartGiven(live.guild_id, live.message_id,
                                     live.created_at, o.results)]
    /\ UNCHANGED <<users, plays, now, faults, calls, roster, content, scan, ready>>

\* Lines 46-51: save_results_to_db is back, with or without an exception.
on_message_saved ==
    /\ live.pc = "save"
    /\ Returning(sess["live"])
    /\ live' = Ended(live, IF sess["live"].phase = "done" THEN "saved" ELSE "dropped")
    /\ sess' = [sess EXCEPT !["live"] = Idle]
    /\ UNCHANGED <<users, plays, now, faults, calls, parseVars, scan, ready>>

-----------------------------------------------------------------------------
(* cogs/wordle_cog.py on_ready *)

MaxReady == 2

\* The ready events of one process; each is handled by a task of its own.
ReadyEvents == 1..MaxReady

\* _historical_scan_done (line 21), where each handler is, the calls of
\* scan_historical_messages made and those that went past its guard.
NoReady ==
    [historical_scan_done |-> FALSE, task |-> [t \in ReadyEvents |-> "none"],
     started |-> 0, ran |-> 0]

\* Line 28
AlreadyDone(flag) == flag

\* Lines 28-29 with parsing.py 194-207: the flag is tested and
\* scan_historical_messages is entered; its guard returns without an await,
\* and then line 30 sets the flag; past the guard the handler is suspended in
\* the scan.
ready_event(t) ==
    /\ ready.task[t] = "none"
    /\ IF AlreadyDone(ready.historical_scan_done)
       THEN ready' = [ready EXCEPT !.task[t] = "returned"]
       ELSE IF SkipsScan(FALSE, plays)
       THEN ready' = [ready EXCEPT !.task[t] = "returned",
                                   !.started = ready.started + 1,
                                   !.historical_scan_done = TRUE]
       ELSE ready' = [ready EXCEPT !.task[t] = "scanning",
                                   !.started = ready.started + 1,
                                   !.ran = ready.ran + 1]
    /\ UNCHANGED <<saveVars, parseVars, scan, live>>

\* parsing.py 276-288: the scan a handler is suspended in commits a play of
\* an announcement it read.
ready_scan_commits(t) ==
    /\ ready.task[t] = "scanning"
    /\ calls < MaxCalls
    /\ calls' = calls + 1
    /\ \E a \in Announcements, u \in Users :
          /\ a[2] <= now
          /\ users' = WithUser(users, a[1], u)
          /\ plays' = IF ExistingPlay(plays, a[1], u, MessageId(a[1], a[2]))
                      THEN plays
                      ELSE plays (+) SetToBag({WordlePlay(a[1], u, MessageId(a[1], a[2]),
                                                          DisplayName(Member(u)), 3, a[2])})
    /\ UNCHANGED <<now, faults, sess, parseVars, scan, live, ready>>

\* Lines 29-30: the scan returns and the flag is set.
ready_done(t) ==
    /\ ready.task[t] = "scanning"
    /\ ready' = [ready EXCEPT !.task[t] = "returned", !.historical_scan_done = TRUE]
    /\ UNCHANGED <<saveVars, parseVars, scan, live>>

InitSave ==
    /\ users = {}
    /\ plays = EmptyBag
    /\ now = Day0
    /\ faults = 0
    /\ calls = 0
    /\ sess = [w \in Workers |-> Idle]

Init ==
    /\ InitSave
    /\ roster = [u \in Users |-> "cached"]
    /\ content = NoContent
    /\ parsed = NoParse
    /\ scan = NoScan
    /\ live = NoLive
    /\ ready = NoReady

Next ==
    \/ \E w \in Workers : save_begin(w)
    \/ \E w \in Workers : save_resolve(w)
    \/ \E w \in Workers : save_adduser(w)
    \/ \E w \in Workers : save_play(w)
    \/ \E w \in Workers : save_addplay(w)
    \/ \E w \in Workers : save_return(w)
    \/ Tick

Spec == Init /\ [][Next]_vars

\* One caller, which may hand an announcement to save_results_to_db twice.
NextReplay ==
    \/ save_begin("live")
    \/ save_again("live")
    \/ save_resolve("live")
    \/ save_adduser("live")
    \/ save_play("live")
    \/ save_addplay("live")
    \/ save_return("live")
    \/ Tick

SpecReplay == Init /\ [][NextReplay]_vars

\* Any message text against any state of the roster.
InitParse ==
    /\ InitSave
    /\ roster \in [Users -> Status]
    /\ content \in Contents
    /\ parsed = NoParse
    /\ scan = NoScan
    /\ live = NoLive
    /\ ready = NoReady

NextParse == parse_message

SpecParse == InitParse /\ [][NextParse]_vars

\* Messages arriving one after another, against any state of the roster.
InitLive ==
    /\ InitSave
    /\ roster \in [Users -> Status]
    /\ content = NoContent
    /\ parsed = NoParse
    /\ scan = NoScan
    /\ live = NoLive
    /\ ready = NoReady

NextLive ==
    \/ on_message
    \/ member_leaves
    \/ on_message_parse
    \/ save_resolve("live")
    \/ save_adduser("live")
    \/ save_play("live")
    \/ save_addplay("live")
    \/ on_message_saved

SpecLive == InitLive /\ [][NextLive]_vars

\* What an earlier run of the bot may have left in the database.
Persisted ==
    { [users |-> {}, plays |-> EmptyBag],
      [users |-> {<<1, 1>>},
       plays |-> SetToBag({WordlePlay(1, 1, MessageId(1, Day0 - WindowDays),
                                      "ann", 3, Day0 - WindowDays)})] }

\* Ready events, each handled while earlier handlers may be suspended.
InitReady ==
    /\ \E db \in Persisted : users = db.users /\ plays = db.plays
    /\ now = Day0
    /\ faults = 0
    /\ calls = 0
    /\ sess = [w \in Workers |-> Idle]
    /\ roster = [u \in Users |-> "cached"]
    /\ content = NoContent
    /\ parsed = NoParse
    /\ scan = NoScan
    /\ live = NoLive
    /\ ready = NoReady

NextReady ==
    \/ \E t \in ReadyEvents : ready_event(t)
    \/ \E t \in ReadyEvents : ready_scan_commits(t)
    \/ \E t \in ReadyEvents : ready_done(t)

SpecReady == InitReady /\ [][NextReady]_vars

InitScan ==
    /\ \E db \in Persisted : users = db.users /\ plays = db.plays
    /\ now = Day0
    /\ faults = 0
    /\ calls = 0
    /\ sess = [w \in Workers |-> Idle]
    /\ roster = [u \in Users |-> "cached"]
    /\ content = NoContent
    /\ parsed = NoParse
    /\ scan = NoScan
    /\ live = NoLive
    /\ ready = NoReady

NextScan ==
    \/ on_ready
    \/ rescan_wordle
    \/ scan_channel
    \/ scan_probe
    \/ scan_batch
    \/ scan_save
    \/ save_resolve("scan")
    \/ save_adduser("scan")
    \/ save_play("scan")
    \/ save_addplay("scan")
    \/ scan_saved

SpecScan == InitScan /\ [][NextScan]_vars

\* save_results_to_db as a function of storage, for a call that runs alone and
\* whose commits succeed (lines 105-183): the storages one result may leave,
\* one for each row the fallback query may return first.
save_result(db, g, m, d, r, t) ==
    LET found == MatchingPlays(db.plays, g, r.username_at_time, t)
        ids == IF NeedsSearch(r) /\ found # {}
               THEN { p.discord_user_id : p \in found }
               ELSE { r.user_id }
    IN { IF Truthy(u)
         THEN [users |-> WithUser(db.users, g, u),
               plays |-> WithPlay(db.plays,
                                  WordlePlay(g, u, m, r.username_at_time, r.guesses, d),
                                  ExistingPlay(db.plays, g, u, m))]
         ELSE db : u \in ids }

RECURSIVE save_results_to_db(_, _, _, _, _, _)
save_results_to_db(dbs, g, m, d, rs, t) ==
    IF rs = <<>> THEN dbs
    ELSE save_results_to_db(UNION { save_result(db, g, m, d, Head(rs), t) : db \in dbs },
                            g, m, d, Tail(rs), t)

\* The loop of lines 276-288 over batch_messages, every call succeeding.
RECURSIVE SaveBatch(_, _, _, _)
SaveBatch(dbs, g, msgs, t) ==
    IF msgs = <<>> THEN dbs
    ELSE SaveBatch(save_results_to_db(dbs, g, Head(msgs).id, Head(msgs).created_at,
                                      Head(msgs).results, t),
                   g, Tail(msgs), t)

\* A message arrives while the deep scan of the first channel commits: the scan
\* has read its first batch, which holds announcements, from a channel of one
\* or two messages; nothing is stored yet.
InitRace ==
    /\ InitSave
    /\ roster = [u \in Users |-> "cached"]
    /\ content = NoContent
    /\ parsed = NoParse
    /\ live = NoLive
    /\ ready = NoReady
    /\ \E h \in Histories :
       \E b \in Batch(h, 1, History(h, BatchLimit, Day0 - scan_batch_days, Day0)) :
          /\ b.msgs # <<>>
          /\ scan = [NoScan EXCEPT !.pc = "save", !.runs = 1, !.ch = 1,
                                   !.history = h, !.current_scan_date = Day0,
                                   !.probed = {1}, !.batch_messages = b.msgs,
                                   !.base = <<{}, EmptyBag>>]

NextRace ==
    \/ on_message
    \/ on_message_parse
    \/ on_message_saved
    \/ scan_save
    \/ scan_saved
    \/ \E w \in Workers : save_resolve(w)
    \/ \E w \in Workers : save_adduser(w)
    \/ \E w \in Workers : save_play(w)
    \/ \E w \in Workers : save_addplay(w)

SpecRace == InitRace /\ [][NextRace]_vars

\* The event loop resumes the scan whenever the await it is suspended at
\* completes; nothing cancels it.
SpecScanFair == SpecScan /\ WF_vars(NextScan)


-----------------------------------------------------------------------------
(* Properties *)

\* C1: calling save_results_to_db twice in sequence with the same guild,
\* message and result list leaves storage after the second call as it was
\* after the first.
C1_SecondCallChangesNothing ==
    \A w \in Workers :
        (sess[w].phase = "done" /\ sess[w].replay) => <<users, plays>> = sess[w].base

\* C2: storage never holds two plays with the same (guild, player, message):
\* no row has a second copy and no two rows share the key.
C2_UniquePlays ==
    \A p \in Rows(plays) :
        /\ CopiesIn(p, plays) = 1
        /\ \A q \in Rows(plays) :
              SameKey(q, p.guild_id, p.discord_user_id, p.stats_discord_message_id)
                  => q = p

\* Two calls raced on one key and the storage layer refused the second insert.
C2_RaceRefused ==
    \E w \in Workers : sess[w].phase = "raised" /\ sess[w].error = "unique"

\* C3: every play has its user record, the user record is there when the
\* call turns to the play, and no insert of a play is ever refused for a
\* missing user record.
C3_UserBeforePlay ==
    /\ \A p \in Rows(plays) : <<p.guild_id, p.discord_user_id>> \in users
    /\ \A w \in Workers :
          /\ sess[w].phase \in {"play", "addplay"}
                => <<sess[w].guild_id, sess[w].user_id>> \in users
          /\ sess[w].error # "fk"

\* A call that created the user record and then the play of one result.
C3_CreatedBoth ==
    \E w \in Workers :
        sess[w].phase = "done" /\ sess[w].madeUser /\ sess[w].madePlay

\* The last result of a finished call was a failed ping that matched nothing.
Unmatched(s) ==
    /\ s.phase = "done"
    /\ Current(s).user_id = None
    /\ s.user_id = None

Candidates(g, r, t) ==
    { p \in Rows(plays) :
        /\ p.guild_id = g
        /\ p.discord_user_name_at_time = r.username_at_time
        /\ p.discord_user_id # None
        /\ p.played_at >= t - WindowDays
        /\ p.played_at <= t + WindowDays }

\* C5: a failed ping takes a player key exactly when a play of the same
\* guild with the same name and a player key lies within 7 days of now, the
\* key is that of such a play, and the play of the announcement is then
\* stored under it.
C5_Step ==
    \A w \in Workers :
        (sess[w].phase = "resolve" /\ sess'[w] # sess[w] /\ Current(sess[w]).user_id = None)
        => LET c == Candidates(sess[w].guild_id, Current(sess[w]), now)
               took == sess'[w].phase \in {"adduser", "play"}
           IN /\ took <=> c # {}
              /\ took => \E p \in c : sess'[w].user_id = p.discord_user_id

C5_Stored ==
    \A w \in Workers :
        (sess[w].phase = "done" /\ Current(sess[w]).user_id = None /\ sess[w].user_id # None)
        => ExistingPlay(plays, sess[w].guild_id, sess[w].user_id, sess[w].message_id)

C5_InheritsKey == [][C5_Step]_vars /\ []C5_Stored

\* A failed ping took a key and its play was stored under it.
C5_Inherited ==
    \E w \in Workers :
        /\ sess[w].phase = "done"
        /\ Current(sess[w]).user_id = None
        /\ sess[w].user_id # None
        /\ sess[w].madePlay

\* The mentions of members that are gone, in the lines parse takes as score
\* lines, when the message is recognised and no lookup raised.
GoneMentions ==
    IF parsed.kind \in {"unset", "raised"} \/ ~LeadInMatches(content) THEN {}
    ELSE { <<i, k>> \in (1..MaxLines) \X (1..MaxTokens) :
             /\ i <= Len(content.lines)
             /\ ScoreMatches(content.lines[i])
             /\ k <= Len(content.lines[i].tokens)
             /\ IsMention(content.lines[i].tokens[k])
             /\ roster[content.lines[i].tokens[k].id] = "gone" }

GoneToken(x) == content.lines[x[1]].tokens[x[2]]

\* C6 as claimed: the result of a mention whose member is gone has a null
\* player key and a display name, and no result carries the mentioned id.
C6_GoneIsNameOnly ==
    \A x \in GoneMentions :
        /\ parsed.kind = "parsed"
        /\ \A k \in 1..Len(parsed.results) :
              parsed.results[k].user_id # GoneToken(x).id
        /\ \E k \in 1..Len(parsed.results) :
              /\ parsed.results[k].user_id = None
              /\ parsed.results[k].username_at_time # NoName

\* C6 as amended: the result of a mention whose member is gone is kept, with
\* the mentioned id as its player key and no display name, once for each such
\* mention of the id, and with the score of its line.
C6_GoneKeepsIdWithoutName ==
    \A x \in GoneMentions :
        LET u == GoneToken(x).id
            l == content.lines[x[1]]
            same == { y \in GoneMentions : GoneToken(y).id = u }
            kept == { k \in 1..Len(parsed.results) : parsed.results[k].user_id = u }
        IN /\ parsed.kind = "parsed"
           /\ Cardinality(kept) = Cardinality(same)
           /\ \A k \in kept : parsed.results[k].username_at_time = NoName
           /\ \E k \in kept : /\ parsed.results[k].guesses = Guesses(l.score)
                              /\ parsed.results[k].is_crown = l.crown

\* A recognised message whose only token mentions a member that is gone.
C6_GoneMentionParsed ==
    /\ GoneMentions # {}
    /\ Len(parsed.results) = 1

\* C9: a scan that is not forced and starts while there are plays reads no
\* channel and leaves storage as it was; a forced scan has read every channel
\* of every guild when it ends, whatever storage held.
C9_BackfillGuard ==
    /\ (scan.pc # "idle" /\ ~scan.force /\ scan.had_plays)
          => /\ scan.pc = "finished"
             /\ scan.probed = {}
             /\ <<users, plays>> = scan.base
    /\ (scan.pc = "finished" /\ scan.force)
          => scan.probed = 1..Len(ChannelList)

\* A forced scan over a database with plays went through the channels and
\* committed an announcement.
C9_ForcedOverPlays ==
    /\ scan.pc = "finished"
    /\ scan.force
    /\ scan.had_plays
    /\ scan.processed_count > 0

\* C10: the probe of a channel without a recognised announcement in the last
\* 7 days ends scan_channel with processed_count and storage as they were,
\* and the deep scan only ever runs on a channel that has one.
C10_Step ==
    (scan.pc = "probe" /\ ~Recent(scan.history, now) /\ scan' # scan)
    => /\ scan'.pc \in {"channel", "finished"}
       /\ scan'.processed_count = scan.processed_count
       /\ users' = users
       /\ plays' = plays
       /\ sess' = sess

C10_Deep ==
    /\ scan.pc \in {"batch", "save", "saving"} => Recent(scan.history, now)
    /\ scan.no_recent => scan.pc \in {"channel", "finished"}

C10_ProbeGate == [][C10_Step]_vars /\ []C10_Deep

\* The probe of a channel without a recent announcement has returned.
C10_QuietChannelLeft ==
    /\ scan.no_recent
    /\ scan.pc \in {"channel", "finished"}

\* The batch read the deep scan is about to issue yields a message of the
\* announcer that the parser can recognise.
BatchHolds ==
    \E i \in 1..Len(scan.history) :
        /\ \E k \in 1..Len(History(scan.history, BatchLimit,
                                   scan.current_scan_date - scan_batch_days,
                                   scan.current_scan_date)) :
              History(scan.history, BatchLimit,
                      scan.current_scan_date - scan_batch_days,
                      scan.current_scan_date)[k] = i
        /\ scan.history[i].author = WORDLE_USER_ID
        /\ Recognised(scan.history[i].content)

\* C11: a batch without a recognised announcement adds 7 to the gap counter
\* and one with such a message resets it to 0; without a read error the deep
\* scan goes on while the counter is under 30 and is left at the batch that
\* takes it to 30 or more, the fifth empty batch in a row.
C11_Step ==
    /\ (scan.pc = "batch" /\ scan' # scan /\ scan'.exit # "batch_error")
          => IF BatchHolds
             THEN scan'.pc = "save" /\ scan'.batch_messages # <<>>
             ELSE IF scan.days_without_wordle + 7 < 30
             THEN /\ scan'.pc = "batch"
                  /\ scan'.days_without_wordle = scan.days_without_wordle + 7
                  /\ scan'.current_scan_date = scan.current_scan_date - 7
             ELSE /\ scan'.exit = "gap"
                  /\ scan.days_without_wordle = 4 * 7
    /\ (scan.pc = "saving" /\ scan' # scan /\ Len(scan.batch_messages) = 1)
          => /\ scan'.pc = "batch"
             /\ scan'.days_without_wordle = 0
             /\ scan'.current_scan_date = scan.current_scan_date - 7
    /\ (scan.pc = "saving" /\ scan' # scan /\ Len(scan.batch_messages) > 1)
          => scan'.pc = "save"
    /\ (scan'.exit = "gap" /\ scan.exit # "gap")
          => scan.pc = "batch" /\ ~BatchHolds

C11_Counter ==
    scan.pc \in {"batch", "save", "saving"}
        => scan.days_without_wordle \in {0, 7, 14, 21, 28}

C11_GapCounter == [][C11_Step]_vars /\ []C11_Counter

\* A deep scan that committed an announcement and then ran into the gap.
C11_StoppedAtGap ==
    /\ scan.exit = "gap"
    /\ scan.processed_count > 0

\* C12: a failure of the probe or of a batch read ends the scan of that
\* channel only: the scan turns to the next channel, or ends when there is
\* none, storage is as it was before the failure, and a scan that was not
\* skipped has read every channel when it ends.
C12_Step ==
    (scan'.failed \ scan.failed # {})
    => /\ scan.pc \in {"probe", "batch"}
       /\ scan'.failed = scan.failed \cup {scan.ch}
       /\ IF scan.ch < Len(ChannelList)
          THEN scan'.pc = "channel" /\ scan'.ch = scan.ch + 1
          ELSE scan'.pc = "finished"
       /\ scan'.processed_count = scan.processed_count
       /\ users' = users
       /\ plays' = plays

C12_AllRead ==
    /\ scan.pc = "finished" /\ (scan.force \/ ~scan.had_plays)
          => scan.probed = 1..Len(ChannelList)
    /\ scan.pc \in {"channel", "probe", "batch", "save", "saving"}
          => \A c \in scan.failed : c < scan.ch

C12_FailureIsolated == [][C12_Step]_vars /\ []C12_AllRead

\* The first channel failed in a batch after a commit, and the scan went on
\* to read the second channel and ended.
C12_LaterChannelRead ==
    /\ scan.pc = "finished"
    /\ scan.failed = {1}
    /\ 2 \in scan.probed
    /\ scan.exit = "miss"
    /\ scan.processed_count > 0

\* C13: no handling of a message ends with an exception leaving on_message.
C13_NeverRaises == live.outcome # "raised"

\* C14: over the ready events of one process at most one backfill goes past
\* its guard and scans.
C14_OneBackfill == ready.ran <= 1

\* C15: no step removes a play or changes a field of one: every row of the
\* table is in the table after the step, as many times as before.
C15_Step == \A p \in Rows(plays) : CopiesIn(p, plays') >= CopiesIn(p, plays)

C15_AppendOnly == [][C15_Step]_vars

\* An announcement was handled again after the mentioned member had left:
\* its result now has no name, and the play stored the first time has its
\* name still.
C15_ReplayedWithOtherValues ==
    /\ live.outcome = "saved"
    /\ live.handled = 2
    /\ parsed.kind = "parsed"
    /\ parsed.results[1].username_at_time = NoName
    /\ \E p \in Rows(plays) :
          /\ SameKey(p, live.guild_id, parsed.results[1].user_id, live.message_id)
          /\ p.discord_user_name_at_time # NoName

\* A line with a score before "/6:" and a mention or a name after it.
Yields(l) == l.score # "none" /\ Len(l.tokens) > 0

\* C16: parse returns None exactly when the text has no "on a N day streak"
\* lead-in or none of its lines yields a result, and a list it returns is
\* never empty.
C16_NoneOrNonEmpty ==
    parsed.kind \in {"none", "parsed"}
    => /\ parsed.kind = "none"
            <=> \/ content.leadin # "a"
                \/ \A i \in 1..Len(content.lines) : ~Yields(content.lines[i])
       /\ parsed.kind = "parsed" => Len(parsed.results) > 0
       /\ parsed.kind = "none" => Len(parsed.results) = 0

\* None for a text with the lead-in and two lines, none of which yields.
C16_LeadInWithoutResults ==
    /\ parsed.kind = "none"
    /\ content.leadin = "a"
    /\ Len(content.lines) = 2

\* The mentions and names of the lines that yield: line and position.
Sources ==
    { x \in (1..MaxLines) \X (1..MaxTokens) :
        /\ x[1] <= Len(content.lines)
        /\ Yields(content.lines[x[1]])
        /\ x[2] <= Len(content.lines[x[1]].tokens) }

\* Result r is that of source x: its line's score and crown, its token's id
\* or name.
Carries(r, x) ==
    LET l == content.lines[x[1]]
        t == l.tokens[x[2]]
    IN /\ r.guesses = (IF l.score = "X" THEN None
                       ELSE IF l.score = "3" THEN 3 ELSE 7)
       /\ r.is_crown = l.crown
       /\ IF t.kind = "mention"
          THEN r.user_id = t.id
          ELSE r.user_id = None /\ r.username_at_time = t.name

\* C17: the list parse returns has one result for each mention and each name
\* of the lines that yield and no other; a result has the score of its line,
\* None for X, and is_crown as its line has the crown.
C17_OneResultPerReference ==
    parsed.kind = "parsed"
    => /\ Len(parsed.results) = Cardinality(Sources)
       /\ \A x \in Sources :
             \E j \in 1..Len(parsed.results) : Carries(parsed.results[j], x)
       /\ \A j \in 1..Len(parsed.results) :
             \E x \in Sources : Carries(parsed.results[j], x)

\* Two lines with one mention each, the first failed and crowned, the second
\* solved in 3: two results.
C17_TwoLinesTwoResults ==
    /\ parsed.kind = "parsed"
    /\ Len(content.lines) = 2
    /\ Len(parsed.results) = 2
    /\ parsed.results[1].user_id # None
    /\ parsed.results[1].guesses = None
    /\ parsed.results[1].is_crown
    /\ parsed.results[2].user_id # None
    /\ parsed.results[2].guesses = 3
    /\ ~parsed.results[2].is_crown

\* C18: every result parse returns has guesses None or in 1..6.
C18_GuessesInRange ==
    parsed.kind = "parsed"
    => \A j \in 1..Len(parsed.results) :
          \/ parsed.results[j].guesses = None
          \/ parsed.results[j].guesses \in 1..6

\* C19: an announcement worded "on an N day streak" parses to what the same
\* announcement worded "on a N day streak" parses to.
C19_ArticleTolerated ==
    parsed.kind # "unset" /\ content.leadin = "an"
    => parsed = parse_wordle_message(roster, [content EXCEPT !.leadin = "a"])

\* The plays of the call a worker has finished are stored.
Committed(w) ==
    \A i \in 1..Len(sess[w].results) :
        Truthy(sess[w].results[i].user_id)
        => \E p \in Rows(plays) :
              SameKey(p, sess[w].guild_id, sess[w].results[i].user_id,
                      sess[w].message_id)

\* C20: a call of save_results_to_db that raises in the deep scan leaves
\* processed_count as it was and the loop goes on, to the next message of
\* the batch or to the next batch; a call that does not raise has its plays
\* stored and is counted, whatever failed before it. In on_message the
\* handler ends with the message dropped and the next message is taken.
C20_Step ==
    /\ (scan.pc = "saving" /\ scan'.pc # "saving" /\ sess["scan"].phase = "raised")
       => /\ scan'.processed_count = scan.processed_count
          /\ IF Len(scan.batch_messages) > 1
             THEN /\ scan'.pc = "save"
                  /\ scan'.batch_messages = Tail(scan.batch_messages)
             ELSE /\ scan'.pc = "batch"
                  /\ scan'.current_scan_date = scan.current_scan_date - 7
    /\ (scan.pc = "saving" /\ scan'.pc # "saving" /\ sess["scan"].phase = "done")
       => /\ scan'.processed_count = scan.processed_count + 1
          /\ Committed("scan")
    /\ (live.pc = "save" /\ live'.pc # "save" /\ sess["live"].phase = "raised")
       => /\ live'.pc = "idle"
          /\ live'.outcome = "dropped"
    /\ (live.pc = "save" /\ live'.pc # "save" /\ sess["live"].phase = "done")
       => /\ live'.outcome = "saved"
          /\ Committed("live")

C20_FailureContained == [][C20_Step]_vars

\* The first message of the first batch of the first channel failed and the
\* second one of the same batch is stored.
C20_LaterMessageCommitted ==
    /\ scan.pc = "saving"
    /\ scan.ch = 1
    /\ scan.total_days_scanned = 0
    /\ Len(scan.batch_messages) = 1
    /\ scan.processed_count = 0
    /\ faults = 1
    /\ sess["scan"].phase = "done"
    /\ Committed("scan")
    /\ plays # EmptyBag

\* C21: a scan that has started finishes: from the guard, from the probe of
\* any channel and from any point of the deep scan of any channel, the end of
\* scan_historical_messages is reached.
C21_Terminates == (scan.pc # "idle") ~> (scan.pc = "finished")

\* A scan that read both channels and left the last one at the gap limit.
C21_FinishedAtGap ==
    /\ scan.pc = "finished"
    /\ scan.exit = "gap"
    /\ scan.probed = 1..Len(ChannelList)

\* Storage holds a play of message m of guild g for every result of rs that
\* has a user_id.
Held(g, m, rs) ==
    \A i \in 1..Len(rs) :
        rs[i].user_id # None
        => \E p \in Rows(plays) : SameKey(p, g, rs[i].user_id, m)

PlaysAfter(msgs) ==
    { Rows(db.plays) :
        db \in SaveBatch({[users |-> users, plays |-> plays]}, Here.guild, msgs, now) }

\* A batch of two announcements that the scan is about to commit.
TwoToCommit ==
    /\ scan.pc = "save"
    /\ Len(scan.batch_messages) = 2
    /\ \A w \in Workers : sess[w].phase = "idle"

\* C23: from the storage at hand, committing the two announcements of a batch
\* in either order leaves the same plays.
C23_OrderIndependent ==
    TwoToCommit
    => PlaysAfter(scan.batch_messages)
         = PlaysAfter(<<scan.batch_messages[2], scan.batch_messages[1]>>)

\* C24: a batch read that ends without an error hands to the commit loop
\* every message of the announcer that the parser recognises and that is
\* dated inside the 7 days of the batch.
C24_Step ==
    (scan.pc = "batch" /\ scan' # scan /\ scan'.exit # "batch_error")
    => \A i \in 1..Len(scan.history) :
          ( /\ scan.history[i].author = WORDLE_USER_ID
            /\ Recognised(scan.history[i].content)
            /\ scan.current_scan_date - 7 < scan.history[i].at
            /\ scan.history[i].at < scan.current_scan_date )
          => \E k \in 1..Len(scan'.batch_messages) :
                scan'.batch_messages[k].id = ScanMessageId(scan.ch, i)

C24_BatchComplete == [][C24_Step]_vars

\* C7: when a call fails at a result, nothing of that result is in storage.
C7_FailedResultLeavesNothing ==
    \A w \in Workers : sess[w].phase = "raised" => ~sess[w].madeUser

\* C8 as claimed: the call returns the number of results it evaluated.
C8_ReturnsCount ==
    \A w \in Workers : sess[w].phase = "done" => sess[w].ret = Len(sess[w].results)

\* C8 as amended: the call returns nothing; it prints the length of the list.
C8_ReturnsNone ==
    \A w \in Workers :
        sess[w].phase = "done"
            => sess[w].ret = None /\ sess[w].logged = Len(sess[w].results)

\* A finished call of two results, the last one already stored.
C8_CountedPresent ==
    \E w \in Workers :
        sess[w].phase = "done" /\ Len(sess[w].results) >= 2 /\ sess[w].existing_play

====
